---- MODULE Spec2Model ----
(***************************************************************************)
(* Model of the DeFi bot's calendar reconciler (calendar_integration.py),  *)
(* its claim estimator (blockchain_utils.py) and its scheduler jobs        *)
(* (scheduler.py) over the relational store of database.py.                *)
(*                                                                         *)
(* Time is counted in hours.  A date string ('%Y-%m-%d') is modelled by    *)
(* the day number it denotes, so formatting a datetime drops its time of   *)
(* day and parsing a date yields midnight of that day.                     *)
(***************************************************************************)
EXTENDS Integers, Sequences, FiniteSets, TLC

\* ------------------------------------------------------------------ bounds
MaxPositions == 1
MaxFanOut == 2
MaxEvents == 2
MaxNow == 33
NumProcs == 2
MaxAlerts == 2
TickHours == 12
MaxClock == 92
MaxRestarts == 1
MaxWallets == 3
MaxHistory == 13
MaxVaried == 2
MaxTxs == 4

\* ------------------------------------------------------- program constants
HoursPerDay == 24
EventHour == 14
NULL == 0

UserIds == {1, 2}

\* Protocol names a position is created with: one listed in the frequency
\* table and one (Euler) that is not.
Protocols == {"Compound", "Euler"}

VARIABLES
  positions,   \* the positions table: row id = index
  events,      \* the calendar provider's events: event id = index
  now,         \* the wall clock, in hours
  last,        \* what the last call did and returned
  procs,       \* the reconciliations in progress, one per handler thread
  users,       \* the users table: row id = index, value = telegram_id
  alerts,      \* the alerts table: row id = index
  job,         \* what the last run of a scheduler job did
  est,         \* the last call of the claim estimator and what it returned
  sched,       \* the scheduler: its job threads and the process it runs in
  conv,        \* the position-entry conversation of one chat
  wallets,     \* the wallets table: row id = index
  wconv,       \* the wallet-addition conversation of one chat
  gas          \* the GasWizard's price history and the last gas-provider call

vars ==
  <<positions, events, now, last, procs, users, alerts, job, est, sched, conv,
    wallets, wconv, gas>>

\* The variables the reconciler leaves alone, and those the scheduler jobs
\* and the tables they read leave alone.  The record of a job run (job) and
\* the record of a call (last) describe the latest thing that happened: each
\* is cleared by a step of the other kind.
nonCalendarVars == <<users, alerts, est, sched, conv, wallets, wconv, gas>>
nonSchedulerVars == <<positions, events, now, last, procs, est, sched, conv, wallets, wconv, gas>>

\* ------------------------------------------------------------ environment
\* What the store and the calendar provider do during one reconciliation:
\*   db    - opening the connection and reading the position row
\*   svc   - get_calendar_service(): a service, None, or an exception
\*   api   - the provider request (insert / get+update)
\*   store - opening the connection and writing calendar_event_id
\* Choices a call never reaches are fixed to "ok".
Envs ==
  { e \in [db : {"ok", "noconn", "error"}, svc : {"ok", "none", "raise"},
           api : {"ok", "raise"}, store : {"ok", "noconn", "error"}] :
      /\ e.db # "ok" => (e.svc = "ok" /\ e.api = "ok" /\ e.store = "ok")
      /\ e.svc # "ok" => (e.api = "ok" /\ e.store = "ok")
      /\ e.api # "ok" => e.store = "ok" }

\* --------------------------------------------------------- claim estimator
claim_frequencies ==
  [p \in {"Aave", "Compound", "Uniswap", "Curve", "Yearn", "Convex", "Harvest"} |->
     CASE p = "Aave" -> 7
       [] p = "Compound" -> 3
       [] p = "Uniswap" -> 14
       [] p = "Curve" -> 7
       [] p = "Yearn" -> 7
       [] p = "Convex" -> 14
       [] p = "Harvest" -> 7]

\* claim_frequencies.get(protocol, 7)
Frequency(protocol) ==
  IF protocol \in DOMAIN claim_frequencies THEN claim_frequencies[protocol] ELSE 7

\* strftime('%Y-%m-%d'): the day of a datetime, its time of day dropped
StrftimeDate(t) == t \div HoursPerDay

\* datetime.fromisoformat(date): midnight of that day
FromIsoDate(d) == d * HoursPerDay

\* The estimate taken from the time the function was last called at.
estimate_next_claim_date_FromLastCall(protocol, asset, t) ==
  StrftimeDate((IF est.op = "none" THEN t ELSE est.t) + Frequency(protocol) * HoursPerDay)

\* (datetime.now() + timedelta(days=frequency)).strftime('%Y-%m-%d'); the
\* asset is not read, and nothing is validated.
estimate_next_claim_date(protocol, asset, t) ==
  StrftimeDate(t + Frequency(protocol) * HoursPerDay)

\* YieldSense.estimate_next_claim_date: the same table and the same formula
YieldSense_estimate_next_claim_date(protocol, asset, t) ==
  StrftimeDate(t + Frequency(protocol) * HoursPerDay)

\* event_date.replace(hour=14, minute=0, second=0)
EventStart(date) == FromIsoDate(date) + EventHour

\* the calendar date of a provider event
EventDate(ev) == StrftimeDate(ev.start)

\* ------------------------------------------------------------ gas provider
LOW_GAS_THRESHOLD == 30
FallbackSlow == 30
FallbackAverage == 45
FallbackFast == 60

TelegramIds == {101, 102}

\* What the gas API answers: a success body whose prices are integer
\* strings, a success body with a decimal price string (int() raises on it),
\* a body whose status is not '1', or no answer (requests.get raises).
GasResponses ==
  [kind : {"ok"}, SafeGasPrice : {20}, ProposeGasPrice : {25, 30, 31}, FastGasPrice : {40}]
  \cup [kind : {"decimal", "status0", "exception"}, SafeGasPrice : {0},
        ProposeGasPrice : {0}, FastGasPrice : {0}]

\* The fallback with the slow price in the place of the average.
get_gas_prices_CheapFallback(resp) ==
  IF resp.kind = "ok"
  THEN [slow |-> resp.SafeGasPrice, average |-> resp.ProposeGasPrice,
        fast |-> resp.FastGasPrice]
  ELSE [slow |-> FallbackSlow, average |-> FallbackSlow, fast |-> FallbackFast]

\* The body's prices returned whatever its status says.
get_gas_prices_StatusUnchecked(resp) ==
  IF resp.kind \in {"ok", "status0"}
  THEN [slow |-> resp.SafeGasPrice, average |-> resp.ProposeGasPrice,
        fast |-> resp.FastGasPrice]
  ELSE [slow |-> FallbackSlow, average |-> FallbackAverage, fast |-> FallbackFast]

\* requests.get, response.json(), data['status'], data['result'][...] and
\* int(...) all run inside the try: whatever they raise ends in the fallback.
get_gas_prices(resp) ==
  IF resp.kind = "ok"
  THEN [slow |-> resp.SafeGasPrice, average |-> resp.ProposeGasPrice,
        fast |-> resp.FastGasPrice]
  ELSE [slow |-> FallbackSlow, average |-> FallbackAverage, fast |-> FallbackFast]

\* ---------------------------------------------------------- scheduler jobs
\* The comparison taken as strict.
IsLowGas_Strict(average) == average < LOW_GAS_THRESHOLD

\* gas_prices['average'] <= LOW_GAS_THRESHOLD
IsLowGas(average) == average <= LOW_GAS_THRESHOLD

\* SELECT u.telegram_id FROM alerts a JOIN users u ON a.user_id = u.id
\* WHERE a.alert_type = 'gas' AND a.is_active = 1: one row per alert row
GasAlertRecipients(usr, alr) ==
  LET rows == SelectSeq(alr, LAMBDA a : /\ a.alert_type = "gas"
                                       /\ a.is_active = 1
                                       /\ a.user_id \in 1..Len(usr))
  IN [i \in 1..Len(rows) |-> usr[rows[i].user_id]]

\* One run: the average price it saw, what the gas API and the store did,
\* whether it queried the store, the candidates it would notify, in order
\* (telegram ids for the gas job, <<telegram id, position id>> for the
\* upcoming-claims job), whether an exception left the job function, and
\* the answers the store and the providers gave it; then the process that
\* made the run (1 for the first start of the scheduler) and the process
\* that made the run of the same job before it, 0 when the run is the first
\* since the tables or the clock changed.
NoJob ==
  [name |-> "none", average |-> 0, provider |-> "none", db |-> "none",
   storeRead |-> FALSE, candidates |-> <<>>, raised |-> FALSE, seen |-> <<>>,
   process |-> 0, previous |-> 0]

\* The run suppressed when the run before it notified somebody.
check_gas_prices_and_notify_Cooldown(usr, alr, resp, db) ==
  LET gas_prices == get_gas_prices(resp)
      run == [NoJob EXCEPT !.name = "gas", !.average = gas_prices.average,
                           !.provider = resp.kind, !.db = db]
  IN IF IsLowGas(gas_prices.average) /\ db = "ok" /\ job.candidates = <<>>
     THEN [run EXCEPT !.storeRead = TRUE, !.candidates = GasAlertRecipients(usr, alr)]
     ELSE run

check_gas_prices_and_notify(usr, alr, resp, db) ==
  LET gas_prices == get_gas_prices(resp)
      run == [NoJob EXCEPT !.name = "gas", !.average = gas_prices.average,
                           !.provider = resp.kind, !.db = db]
  IN IF IsLowGas(gas_prices.average)
     THEN IF db = "noconn" THEN run
          ELSE IF db = "error" THEN run
          ELSE [run EXCEPT !.storeRead = TRUE,
                           !.candidates = GasAlertRecipients(usr, alr)]
     ELSE run

\* ------------------------------------------------------------- reconciler
\* What a call hands back: the store and the provider after it, its return
\* value ("true", "false", or "raised" when an exception leaves the call),
\* the path taken, the event touched and the number of events created.
Ret(pos, evs, result, path, event, created, target) ==
  [positions |-> pos, events |-> evs, result |-> result, path |-> path,
   event |-> event, created |-> created, target |-> target]

\* The UPDATE without its test of the row id: every row of the user is set.
SetCalendarEventId_EveryRowOfUser(pos, position_id, user_id, event_id) ==
  [i \in 1..Len(pos) |->
     IF pos[i].user_id = user_id
     THEN [pos[i] EXCEPT !.calendar_event_id = event_id]
     ELSE pos[i]]

\* UPDATE positions SET calendar_event_id = ? WHERE id = ? AND user_id = ?
SetCalendarEventId(pos, position_id, user_id, event_id) ==
  [i \in 1..Len(pos) |->
     IF i = position_id /\ pos[i].user_id = user_id
     THEN [pos[i] EXCEPT !.calendar_event_id = event_id]
     ELSE pos[i]]

\* The reference written before the provider request is known to have
\* succeeded: a failed insert leaves the id the event would have had.
create_yield_claim_event_StoresFirst(pos, evs, estimated_date, user_id, position_id, env) ==
  IF env.svc = "raise" THEN Ret(pos, evs, "raised", "create", NULL, 0, estimated_date)
  ELSE IF env.svc = "none" THEN Ret(pos, evs, "false", "create", NULL, 0, estimated_date)
  ELSE
    LET event_id == Len(evs) + 1
        pos2 == IF position_id # NULL /\ user_id # NULL /\ env.store = "ok"
                THEN SetCalendarEventId(pos, position_id, user_id, event_id)
                ELSE pos
    IN IF env.api = "raise"
       THEN Ret(pos2, evs, "false", "create", NULL, 0, estimated_date)
       ELSE Ret(pos2,
                Append(evs, [live |-> TRUE, start |-> EventStart(estimated_date),
                             pos |-> position_id]),
                "true", "create", event_id, 1, estimated_date)

create_yield_claim_event(pos, evs, estimated_date, user_id, position_id, env) ==
  IF env.svc = "raise" THEN Ret(pos, evs, "raised", "create", NULL, 0, estimated_date)
  ELSE IF env.svc = "none" THEN Ret(pos, evs, "false", "create", NULL, 0, estimated_date)
  ELSE IF env.api = "raise" THEN Ret(pos, evs, "false", "create", NULL, 0, estimated_date)
  ELSE
    LET evs2 == Append(evs, [live |-> TRUE, start |-> EventStart(estimated_date),
                             pos |-> position_id])
        event_id == Len(evs2)
        pos2 == IF position_id # NULL /\ user_id # NULL /\ env.store = "ok"
                THEN SetCalendarEventId(pos, position_id, user_id, event_id)
                ELSE pos
    IN Ret(pos2, evs2, "true", "create", event_id, 1, estimated_date)

\* The update reported as done with the event's times left as they were.
update_yield_claim_event_KeepsDate(pos, evs, event_id, new_date, env) ==
  IF env.svc = "raise" THEN Ret(pos, evs, "raised", "update", event_id, 0, new_date)
  ELSE IF env.svc = "none" THEN Ret(pos, evs, "false", "update", event_id, 0, new_date)
  ELSE IF env.api = "raise" \/ event_id \notin 1..Len(evs) \/ ~evs[event_id].live
    THEN Ret(pos, evs, "false", "update", event_id, 0, new_date)
  ELSE Ret(pos, evs, "true", "update", event_id, 0, new_date)

update_yield_claim_event(pos, evs, event_id, new_date, env) ==
  IF env.svc = "raise" THEN Ret(pos, evs, "raised", "update", event_id, 0, new_date)
  ELSE IF env.svc = "none" THEN Ret(pos, evs, "false", "update", event_id, 0, new_date)
  ELSE IF env.api = "raise" \/ event_id \notin 1..Len(evs) \/ ~evs[event_id].live
    THEN Ret(pos, evs, "false", "update", event_id, 0, new_date)
  ELSE Ret(pos, [evs EXCEPT ![event_id].start = EventStart(new_date)],
           "true", "update", event_id, 0, new_date)

\* The row read by its id alone, whoever owns it.
sync_position_with_calendar_AnyOwner(pos, evs, t, user_id, position_id, env) ==
  IF env.db # "ok" THEN Ret(pos, evs, "false", "nodb", NULL, 0, NULL)
  ELSE IF ~(position_id \in 1..Len(pos))
    THEN Ret(pos, evs, "false", "notfound", NULL, 0, NULL)
  ELSE
    LET row == pos[position_id]
        next_claim_date == estimate_next_claim_date(row.protocol, row.asset, t)
    IN IF row.calendar_event_id # NULL
       THEN update_yield_claim_event(pos, evs, row.calendar_event_id, next_claim_date, env)
       ELSE create_yield_claim_event(pos, evs, next_claim_date, user_id, position_id, env)

sync_position_with_calendar(pos, evs, t, user_id, position_id, env) ==
  IF env.db # "ok" THEN Ret(pos, evs, "false", "nodb", NULL, 0, NULL)
  ELSE IF ~(position_id \in 1..Len(pos) /\ pos[position_id].user_id = user_id)
    THEN Ret(pos, evs, "false", "notfound", NULL, 0, NULL)
  ELSE
    LET row == pos[position_id]
        next_claim_date == estimate_next_claim_date(row.protocol, row.asset, t)
    IN IF row.calendar_event_id # NULL
       THEN update_yield_claim_event(pos, evs, row.calendar_event_id, next_claim_date, env)
       ELSE create_yield_claim_event(pos, evs, next_claim_date, user_id, position_id, env)

\* The rows of the user whatever their status.
ActivePositionIds_AnyStatus(pos, user_id) ==
  SelectSeq([i \in 1..Len(pos) |-> i], LAMBDA i : pos[i].user_id = user_id)

\* SELECT ... FROM positions WHERE user_id = ? AND status = 'active': the
\* WHERE clause of sync_all_positions_with_calendar, of
\* get_upcoming_yield_claims_for_user and of view_portfolio
ActivePositionIds(pos, user_id) ==
  SelectSeq([i \in 1..Len(pos) |-> i],
            LAMBDA i : pos[i].user_id = user_id /\ pos[i].status = "active")

\* The loop of sync_all_positions_with_calendar from the i-th id on: an
\* exception raised by one reconciliation leaves the loop.
RECURSIVE SyncLoop(_, _, _, _, _, _, _)
SyncLoop(acc, ids, i, envs, t, user_id, results) ==
  IF i > Len(ids) THEN [acc EXCEPT !.results = results]
  ELSE
    LET r == sync_position_with_calendar(acc.positions, acc.events, t, user_id,
                                         ids[i], envs[i])
        acc2 == [acc EXCEPT !.positions = r.positions, !.events = r.events,
                            !.created = acc.created + r.created]
    IN IF r.result = "raised"
       THEN [acc2 EXCEPT !.raised = TRUE, !.results = Append(results, "raised")]
       ELSE SyncLoop([acc2 EXCEPT !.success_count =
                         acc.success_count + (IF r.result = "true" THEN 1 ELSE 0)],
                     ids, i + 1, envs, t, user_id, Append(results, r.result))

sync_all_positions_with_calendar(pos, evs, t, user_id, db, envs) ==
  LET ids == ActivePositionIds(pos, user_id)
      start == [positions |-> pos, events |-> evs, success_count |-> 0,
                created |-> 0, raised |-> FALSE, results |-> <<>>]
  IN IF db # "ok"
     THEN [start EXCEPT !.positions = pos] @@ [ids |-> <<>>, result |-> "false"]
     ELSE LET acc == SyncLoop(start, ids, 1, envs, t, user_id, <<>>)
          IN acc @@ [ids |-> ids,
                     result |-> IF acc.raised THEN "raised"
                                ELSE IF acc.success_count > 0 THEN "true"
                                ELSE "false"]

\* INSERT INTO positions (...): status defaults to 'active' and
\* calendar_event_id to NULL; lastrowid is the new row's id.
InsertPosition(pos, user_id, protocol, asset, amount) ==
  Append(pos, [user_id |-> user_id, protocol |-> protocol, asset |-> asset,
               amount |-> amount, status |-> "active", calendar_event_id |-> NULL])

\* The position inserted only once its calendar event exists.
setup_calendar_sync_for_new_position_SyncFirst(pos, evs, t, user_id, protocol, asset, amount, db, env) ==
  IF db # "ok" THEN Ret(pos, evs, "false", "nodb", NULL, 0, NULL)
  ELSE LET pos2 == InsertPosition(pos, user_id, protocol, asset, amount)
           position_id == Len(pos2)
           r == sync_position_with_calendar(pos2, evs, t, user_id, position_id, env)
       IN IF r.result = "true" THEN r ELSE [r EXCEPT !.positions = pos]

\* No check of protocol, asset or amount precedes the INSERT, and the table
\* has no CHECK constraint.
setup_calendar_sync_for_new_position(pos, evs, t, user_id, protocol, asset, amount, db, env) ==
  IF db # "ok" THEN Ret(pos, evs, "false", "nodb", NULL, 0, NULL)
  ELSE LET pos2 == InsertPosition(pos, user_id, protocol, asset, amount)
           position_id == Len(pos2)
       IN sync_position_with_calendar(pos2, evs, t, user_id, position_id, env)

OkEnv == [db |-> "ok", svc |-> "ok", api |-> "ok", store |-> "ok"]

\* ------------------------------------------------- the upcoming-claims job
\* calendar_integration.get_upcoming_yield_claims_for_user(db_user_id, 1)
LookaheadDays == 1

\* What the calendar provider does when the event of one position is fetched:
\*   svc - get_calendar_service(): a service, None, or an exception
\*   api - events().get(...).execute()
\*   tz  - the form of start.dateTime in the answer: with a UTC offset
\*         ('...Z' or '+00:00', the RFC 3339 form of the Calendar API), or
\*         without one, as create_yield_claim_event sent it
ClaimEnvs ==
  { e \in [svc : {"ok", "none", "raise"}, api : {"ok", "raise"}, tz : {"offset", "naive"}] :
      /\ e.svc # "ok" => (e.api = "ok" /\ e.tz = "offset")
      /\ e.api # "ok" => e.tz = "offset" }

\* (event_date - now).days: the whole days of the difference, rounded down
DaysUntil(start, t) == (start - t) \div HoursPerDay

\* The loop over the rows selected for one user: the positions it appends
\* to upcoming_claims.  Every exception of the request and of the lines that
\* follow it is caught and logged, among them the TypeError of subtracting
\* the naive datetime.now() from a datetime parsed with an offset.
IsUpcoming(pos, evs, t, days_ahead, envs, position_id) ==
  LET calendar_event_id == pos[position_id].calendar_event_id
      e == envs[position_id]
  IN /\ calendar_event_id # NULL
     /\ e.svc = "ok"
     /\ e.api = "ok"
     /\ calendar_event_id \in 1..Len(evs)
     /\ evs[calendar_event_id].live
     /\ e.tz = "naive"
     /\ 0 <= DaysUntil(evs[calendar_event_id].start, t)
     /\ DaysUntil(evs[calendar_event_id].start, t) <= days_ahead

\* get_calendar_service() is called outside the try of the request: its
\* exception leaves the loop and the function, the claims found so far lost.
ClaimsLoop(pos, evs, t, days_ahead, envs, ids) ==
  IF \E i \in 1..Len(ids) : /\ pos[ids[i]].calendar_event_id # NULL
                             /\ envs[ids[i]].svc = "raise"
  THEN [claims |-> <<>>, raised |-> TRUE]
  ELSE [claims |-> SelectSeq(ids, LAMBDA position_id :
                      IsUpcoming(pos, evs, t, days_ahead, envs, position_id)),
        raised |-> FALSE]

\* The function reconciling the user's positions before it reads them.
get_upcoming_yield_claims_for_user_Reconciling(pos, evs, t, user_id, days_ahead, db, envs) ==
  LET r == sync_all_positions_with_calendar(pos, evs, t, user_id, db,
                                            [i \in 1..Len(pos) |-> OkEnv])
  IN IF db # "ok"
     THEN [claims |-> <<>>, raised |-> FALSE, positions |-> pos, events |-> evs]
     ELSE ClaimsLoop(r.positions, r.events, t, days_ahead, envs,
                     ActivePositionIds(r.positions, user_id))
          @@ [positions |-> r.positions, events |-> r.events]

\* The claims of one user within days_ahead days, the store and the
\* provider after the call: the function only reads them.
get_upcoming_yield_claims_for_user(pos, evs, t, user_id, days_ahead, db, envs) ==
  IF db # "ok"
  THEN [claims |-> <<>>, raised |-> FALSE, positions |-> pos, events |-> evs]
  ELSE ClaimsLoop(pos, evs, t, days_ahead, envs, ActivePositionIds(pos, user_id))
       @@ [positions |-> pos, events |-> evs]

\* The loop over the first n rows of the users table.  The job catches
\* sqlite3.Error only: an exception of a call leaves the job after the
\* candidates already logged.
RECURSIVE UsersLoop(_, _, _, _, _, _, _)
UsersLoop(usr, pos, evs, t, udb, envs, n) ==
  IF n = 0
  THEN [positions |-> pos, events |-> evs, candidates |-> <<>>, raised |-> FALSE]
  ELSE
    LET acc == UsersLoop(usr, pos, evs, t, udb, envs, n - 1)
        r == get_upcoming_yield_claims_for_user(acc.positions, acc.events, t, n,
                                                LookaheadDays, udb[n], envs)
    IN IF acc.raised THEN acc
       ELSE [positions |-> r.positions, events |-> r.events,
             candidates |-> IF r.raised THEN acc.candidates
                            ELSE acc.candidates
                                 \o [k \in 1..Len(r.claims) |-> <<usr[n], r.claims[k]>>],
             raised |-> r.raised]

\* db: the job's own connection and its SELECT of the users; udb: the
\* connection of the call made for each user; envs: the provider, per
\* position.
check_upcoming_yield_claims(usr, pos, evs, t, db, udb, envs) ==
  LET acc == UsersLoop(usr, pos, evs, t, udb, envs, IF db # "ok" THEN 0 ELSE Len(usr))
  IN [positions |-> acc.positions, events |-> acc.events,
      run |-> [NoJob EXCEPT !.name = "claims", !.provider = "calendar", !.db = db,
                            !.storeRead = db = "ok",
                            !.candidates = acc.candidates, !.raised = acc.raised]]

\* ------------------------------------------------------------- bot handlers
\* SELECT id FROM users WHERE telegram_id = ?: the row id, NULL when the
\* chat never ran /start
UserRowOf(usr, telegram_id) ==
  IF \E i \in 1..Len(usr) : usr[i] = telegram_id
  THEN CHOOSE i \in 1..Len(usr) : usr[i] = telegram_id
  ELSE NULL

\* bot.view_portfolio: the reply and the positions it lists.  The rows are
\* selected WHERE user_id = ? AND status = 'active'; the upcoming claims are
\* then asked for (days_ahead = 7) and any exception replaces the listing by
\* an error message.
view_portfolio(usr, pos, evs, t, telegram_id, db, envs) ==
  LET db_user_id == UserRowOf(usr, telegram_id)
      ids == ActivePositionIds(pos, db_user_id)
      upcoming == get_upcoming_yield_claims_for_user(pos, evs, t, db_user_id, 7, "ok", envs)
  IN IF db = "noconn" THEN [reply |-> "noconn", user |-> NULL, ids |-> <<>>]
     ELSE IF db = "error" THEN [reply |-> "error", user |-> NULL, ids |-> <<>>]
     ELSE IF db_user_id = NULL THEN [reply |-> "nouser", user |-> NULL, ids |-> <<>>]
     ELSE IF ids = <<>> THEN [reply |-> "empty", user |-> db_user_id, ids |-> <<>>]
     ELSE IF upcoming.raised THEN [reply |-> "error", user |-> db_user_id, ids |-> <<>>]
     ELSE [reply |-> "portfolio", user |-> db_user_id, ids |-> ids]

\* upcoming_claims.sort(key=lambda x: x['days_until']): a stable sort of the
\* position ids by the whole days until their event
RECURSIVE SortByDaysUntil(_, _, _)
SortByDaysUntil(evs, pos, ids) ==
  IF ids = <<>> THEN <<>>
  ELSE LET Days(id) == EventDate(evs[pos[id].calendar_event_id])
           rest == SortByDaysUntil(evs, pos, Tail(ids))
           before == SelectSeq(rest, LAMBDA id : Days(id) < Days(Head(ids)))
           after == SelectSeq(rest, LAMBDA id : Days(id) >= Days(Head(ids)))
       IN before \o <<Head(ids)>> \o after

\* bot.view_upcoming_claims: the reply and the claims it lists, for
\* days_ahead = 30; the store and the provider as the call leaves them.
UpcomingDays == 30
view_upcoming_claims(usr, pos, evs, t, telegram_id, db, envs) ==
  LET db_user_id == UserRowOf(usr, telegram_id)
      r == get_upcoming_yield_claims_for_user(pos, evs, t, db_user_id, UpcomingDays,
                                              "ok", envs)
      same == [positions |-> pos, events |-> evs]
  IN IF db = "noconn" THEN [reply |-> "noconn", user |-> NULL, ids |-> <<>>] @@ same
     ELSE IF db = "error" THEN [reply |-> "error", user |-> NULL, ids |-> <<>>] @@ same
     ELSE IF db_user_id = NULL THEN [reply |-> "nouser", user |-> NULL, ids |-> <<>>] @@ same
     ELSE [reply |-> IF r.raised THEN "error"
                     ELSE IF r.claims = <<>> THEN "none" ELSE "claims",
           user |-> db_user_id,
           ids |-> IF r.raised THEN <<>>
                   ELSE SortByDaysUntil(r.events, r.positions, r.claims),
           positions |-> r.positions, events |-> r.events]

\* scheduler.check_security_alerts: two log lines
check_security_alerts == [NoJob EXCEPT !.name = "security"]

\* ---------------------------------------------------------------- actions
\* The record of a run completed with what the run was answered and with
\* the processes that made it and the run before it.
Recorded(run, seen) ==
  [run EXCEPT !.seen = seen, !.process = sched.restarts + 1,
              !.previous = IF job.name = run.name THEN job.process ELSE 0]

\* The record of the last call: its arguments, its return value, the path it
\* took, the reference it found, the event it touched, the number of events
\* it created, the claim date it computed, whether the store could be read
\* and whether every provider request of the call was answered; for a sync-all run the ids it selected, the
\* result of each reconciliation it made and its success count.
NoCall ==
  [op |-> "none", user |-> NULL, pid |-> NULL, result |-> "none", path |-> "none",
   refBefore |-> NULL, event |-> NULL, created |-> 0, target |-> NULL,
   env |-> OkEnv, dbOk |-> FALSE, provOk |-> FALSE, ids |-> <<>>, results |-> <<>>, count |-> 0]

RefOf(pos, position_id) ==
  IF position_id \in 1..Len(pos) THEN pos[position_id].calendar_event_id ELSE NULL

ProviderSucceeds(env) == env.db = "ok" /\ env.svc = "ok" /\ env.api = "ok"

DbOutcomes == {"ok", "noconn", "error"}

\* A reconciliation in progress: where it stands in
\* sync_position_with_calendar, its arguments, the calendar_event_id and the
\* claim date it read (read: it found the row), the id of the event it
\* inserted, and whether its UPDATE of the reference was executed.
IdleProc ==
  [pc |-> "idle", user |-> NULL, pid |-> NULL, read |-> FALSE, ref |-> NULL,
   date |-> NULL, event_id |-> NULL, stored |-> FALSE, result |-> "none"]

\* No call of the estimator yet.
NoEstimate ==
  [op |-> "none", protocol |-> "", asset |-> "", t |-> 0, result |-> "none", date |-> 0]

\* start_scheduler: a new BackgroundScheduler, no run of a job in progress.
\* restarts counts the starts of the process after the first.
IdleScheduler == [gas |-> "idle", claims |-> "idle", restarts |-> 0]

\* ConversationHandler.END: no position entry in progress, user_data empty.
\* Beside the state and user_data the record keeps the handler that ran
\* last, the words of the message it was given, and the states the
\* conversation has been in since its entry point.
NoConversation ==
  [state |-> "END", chat |-> NULL, protocol |-> "", asset |-> "", amount |-> 0,
   handler |-> "none", text |-> <<>>, trail |-> <<>>]

\* No wallet conversation in progress.  Beside the state the record keeps
\* the handler that ran last, the text it was given, what create_connection
\* and the SELECT of the user row did, the user row found, and the reply.
NoWalletConversation ==
  [state |-> "END", chat |-> NULL, handler |-> "none", address |-> <<>>,
   db |-> "none", user |-> NULL, reply |-> "none"]

\* No call of a GasWizard method or of get_gas_prices yet.  A call records
\* its name, what the gas API answered, the prices returned, the number of
\* samples the history held when it was read, the transactions given, and
\* the prediction or the batching advice returned.
NoGasCall ==
  [op |-> "none", provider |-> "none",
   prices |-> [slow |-> 0, average |-> 0, fast |-> 0],
   samples |-> 0, transactions |-> <<>>,
   prediction |-> [best_time |-> "none", best_hour |-> 0, confidence |-> "none"],
   batch |-> [can_batch |-> FALSE, batchable_groups |-> 0, total_transactions |-> 0,
              batchable_transactions |-> 0, estimated_gas_savings |-> 0,
              savings_percentage |-> [num |-> 0, den |-> 1]]]

\* GasWizard.__init__: self.gas_price_history = []
NewGasWizard == [history |-> <<>>, call |-> NoGasCall]

Init ==
  /\ positions = <<>>
  /\ events = <<>>
  /\ now = 20
  /\ last = NoCall
  /\ procs = [p \in 1..NumProcs |-> IdleProc]
  /\ users = <<>>
  /\ alerts = <<>>
  /\ job = NoJob
  /\ est = NoEstimate
  /\ sched = IdleScheduler
  /\ conv = NoConversation
  /\ wallets = <<>>
  /\ wconv = NoWalletConversation
  /\ gas = NewGasWizard

\* bot.confirmation -> setup_calendar_sync_for_new_position, for an entry of
\* "100 USDC"
AddPosition(max, u, p, db, env) ==
  /\ Len(positions) < max
  /\ LET r == setup_calendar_sync_for_new_position(positions, events, now, u, p,
                                                   "USDC", 100, db, env)
     IN /\ Len(r.events) <= MaxEvents
        /\ positions' = r.positions
        /\ events' = r.events
        /\ last' = [NoCall EXCEPT !.op = "add", !.user = u,
                                  !.pid = IF db = "ok" THEN Len(positions) + 1 ELSE NULL,
                                  !.result = r.result, !.path = r.path,
                                  !.event = r.event, !.created = r.created,
                                  !.target = r.target, !.env = env,
                                  !.dbOk = db = "ok" /\ env.db = "ok",
                                  !.provOk = db = "ok" /\ ProviderSucceeds(env)]
  /\ UNCHANGED <<now, procs>>
  /\ job' = NoJob
  /\ UNCHANGED nonCalendarVars

SyncPosition(u, pid, env) ==
  /\ LET r == sync_position_with_calendar(positions, events, now, u, pid, env)
     IN /\ Len(r.events) <= MaxEvents
        /\ positions' = r.positions
        /\ events' = r.events
        /\ last' = [NoCall EXCEPT !.op = "sync", !.user = u, !.pid = pid,
                                  !.result = r.result, !.path = r.path,
                                  !.refBefore = RefOf(positions, pid),
                                  !.event = r.event, !.created = r.created,
                                  !.target = r.target, !.env = env,
                                  !.dbOk = env.db = "ok",
                                  !.provOk = ProviderSucceeds(env)]
  /\ UNCHANGED <<now, procs>>
  /\ job' = NoJob
  /\ UNCHANGED nonCalendarVars

\* bot.sync_calendar -> sync_all_positions_with_calendar
SyncAll(u, db, envs) ==
  /\ LET r == sync_all_positions_with_calendar(positions, events, now, u, db, envs)
     IN /\ Len(r.events) <= MaxEvents
        /\ positions' = r.positions
        /\ events' = r.events
        /\ last' = [NoCall EXCEPT !.op = "syncall", !.user = u, !.result = r.result,
                                  !.created = r.created, !.ids = r.ids,
                                  !.dbOk = db = "ok",
                                  !.results = r.results, !.count = r.success_count]
  /\ UNCHANGED <<now, procs>>
  /\ job' = NoJob
  /\ UNCHANGED nonCalendarVars

\* The calendar's owner deletes, at the provider, an event a position
\* references.
ExternalDelete(e) ==
  /\ e \in 1..Len(events)
  /\ events[e].live
  /\ \E pid \in 1..Len(positions) : positions[pid].calendar_event_id = e
  /\ events' = [events EXCEPT ![e].live = FALSE]
  /\ last' = NoCall
  /\ UNCHANGED <<positions, now, procs>>
  /\ job' = NoJob
  /\ UNCHANGED nonCalendarVars

\* A position is closed outside the reconciler (status column).
ExternalClose(pid) ==
  /\ pid \in 1..Len(positions)
  /\ positions[pid].status = "active"
  /\ positions' = [positions EXCEPT ![pid].status = "closed"]
  /\ last' = NoCall
  /\ UNCHANGED <<events, now, procs>>
  /\ job' = NoJob
  /\ UNCHANGED nonCalendarVars

Tick ==
  /\ now + TickHours <= MaxNow
  /\ now' = now + TickHours
  /\ last' = NoCall
  /\ UNCHANGED <<positions, events, procs>>
  /\ job' = NoJob
  /\ UNCHANGED nonCalendarVars

\* scheduler.add_job(check_upcoming_yield_claims, 'cron', hour=9, minute=0)
ClaimsJob(db, udb, envs) ==
  /\ sched.claims = "idle"
  /\ LET r == check_upcoming_yield_claims(users, positions, events, now, db, udb, envs)
     IN /\ Len(r.events) <= MaxEvents
        /\ positions' = r.positions
        /\ events' = r.events
        /\ job' = Recorded(r.run, <<db, udb, envs>>)
  /\ last' = NoCall
  /\ UNCHANGED <<now, procs, users, alerts, est, sched, conv, wallets, wconv, gas>>

\* The process is stopped and started again: main() runs start_scheduler(),
\* which makes a new BackgroundScheduler and adds the three jobs to it.
\* Nothing of the earlier process is read back; a thread that was waiting
\* for a provider is gone with it.
RestartScheduler ==
  /\ sched.restarts < MaxRestarts
  /\ sched' = [IdleScheduler EXCEPT !.restarts = sched.restarts + 1]
  /\ UNCHANGED <<positions, events, now, last, procs, users, alerts, job, est, conv, wallets, wconv, gas>>

\* A run of the gas job whose requests.get(gas_api_url), made without a
\* timeout, is never answered: the call does not return and the run keeps
\* its thread.  With max_instances at its default of 1 the scheduler skips
\* the later runs of the job while this one is counted as running.
GasRequestHangs ==
  /\ sched.gas = "idle"
  /\ sched' = [sched EXCEPT !.gas = "blocked"]
  /\ UNCHANGED <<positions, events, now, last, procs, users, alerts, job, est, conv, wallets, wconv, gas>>

\* A day passes.
DayPasses ==
  /\ now + HoursPerDay <= MaxClock
  /\ now' = now + HoursPerDay
  /\ last' = NoCall
  /\ job' = NoJob
  /\ UNCHANGED <<positions, events, procs, users, alerts, est, sched, conv, wallets, wconv, gas>>

\* /portfolio
ViewPortfolio(telegram_id, db, envs) ==
  /\ LET r == view_portfolio(users, positions, events, now, telegram_id, db, envs)
     IN last' = [NoCall EXCEPT !.op = "portfolio", !.user = r.user, !.result = r.reply,
                               !.ids = r.ids, !.dbOk = db = "ok"]
  /\ UNCHANGED <<positions, events, now, procs>>
  /\ job' = NoJob
  /\ UNCHANGED nonCalendarVars

\* /upcoming_claims
ViewUpcomingClaims(telegram_id, db, envs) ==
  /\ LET r == view_upcoming_claims(users, positions, events, now, telegram_id, db, envs)
     IN /\ Len(r.events) <= MaxEvents
        /\ positions' = r.positions
        /\ events' = r.events
        /\ last' = [NoCall EXCEPT !.op = "upcoming", !.user = r.user, !.result = r.reply,
                                  !.ids = r.ids, !.dbOk = db = "ok"]
  /\ UNCHANGED <<now, procs>>
  /\ job' = NoJob
  /\ UNCHANGED nonCalendarVars

\* scheduler.add_job(check_security_alerts, 'interval', hours=6)
SecurityJob ==
  /\ job' = Recorded(check_security_alerts, <<>>)
  /\ last' = NoCall
  /\ UNCHANGED <<positions, events, now, procs, users, alerts, est, sched, conv,
                 wallets, wconv, gas>>

\* Single reconciliations, by their owner (user 1) and by another user, of
\* positions as they are added, while events are deleted at the provider and
\* time passes.
Next ==
  \/ \E p \in Protocols, db \in DbOutcomes, env \in Envs :
       AddPosition(MaxPositions, 1, p, db, env)
  \/ \E u \in UserIds, pid \in 1..MaxPositions, env \in Envs : SyncPosition(u, pid, env)
  \/ \E e \in 1..MaxEvents : ExternalDelete(e)
  \/ Tick

Spec == Init /\ [][Next]_vars

\* Additions, single reconciliations and sync-all runs over up to MaxFanOut
\* positions, some of them closed.  A sync-all run meets one environment per
\* reconciliation it makes.
NextAll ==
  \/ \E u \in UserIds, db \in DbOutcomes, env \in Envs :
       AddPosition(MaxFanOut, u, "Compound", db, env)
  \/ \E u \in UserIds, pid \in 1..MaxFanOut, env \in Envs : SyncPosition(u, pid, env)
  \/ \E u \in UserIds :
       \E envs \in [1..Len(ActivePositionIds(positions, u)) -> Envs] :
         SyncAll(u, "ok", envs)
  \/ \E u \in UserIds, db \in DbOutcomes \ {"ok"} : SyncAll(u, db, <<>>)
  \/ \E pid \in 1..MaxFanOut : ExternalClose(pid)

SpecAll == Init /\ [][NextAll]_vars

\* ------------------------------------------ reconciliations that interleave
\* sync_position_with_calendar taken one store or provider request at a
\* time: the SELECT of the row, the provider request, the UPDATE of the
\* reference.  Nothing in the code orders the requests of two calls.
SelectRow(p, u, pid, db) ==
  /\ procs[p].pc = "idle"
  /\ LET found == db = "ok" /\ pid \in 1..Len(positions) /\ positions[pid].user_id = u
     IN procs' = [procs EXCEPT ![p] =
          IF found
          THEN [IdleProc EXCEPT
                  !.pc = "selected", !.user = u, !.pid = pid, !.read = TRUE,
                  !.ref = positions[pid].calendar_event_id,
                  !.date = estimate_next_claim_date(positions[pid].protocol,
                                                   positions[pid].asset, now)]
          ELSE [IdleProc EXCEPT !.pc = "done", !.user = u, !.pid = pid,
                                !.result = "false"]]
  /\ last' = NoCall
  /\ UNCHANGED <<positions, events, now>>
  /\ job' = NoJob
  /\ UNCHANGED nonCalendarVars

\* service.events().insert(...).execute(), or get + update on the update path
ProviderRequest(p, env) ==
  /\ procs[p].pc = "selected"
  /\ env.db = "ok" /\ env.store = "ok"
  /\ LET me == procs[p]
         r == IF me.ref # NULL
              THEN update_yield_claim_event(positions, events, me.ref, me.date, env)
              ELSE create_yield_claim_event(positions, events, me.date, NULL, NULL, env)
     IN /\ Len(r.events) <= MaxEvents
        /\ events' = [i \in 1..Len(r.events) |->
                        IF i > Len(events) THEN [r.events[i] EXCEPT !.pos = me.pid]
                        ELSE r.events[i]]
        /\ procs' = [procs EXCEPT ![p] =
             IF r.created = 1
             THEN [me EXCEPT !.pc = "inserted", !.event_id = r.event]
             ELSE [me EXCEPT !.pc = "done", !.result = r.result]]
  /\ last' = NoCall
  /\ UNCHANGED <<positions, now>>
  /\ job' = NoJob
  /\ UNCHANGED nonCalendarVars

\* UPDATE positions SET calendar_event_id = ? WHERE id = ? AND user_id = ?
StoreReference(p, store) ==
  /\ procs[p].pc = "inserted"
  /\ LET me == procs[p]
     IN /\ positions' = IF store = "ok"
                        THEN SetCalendarEventId(positions, me.pid, me.user, me.event_id)
                        ELSE positions
        /\ procs' = [procs EXCEPT ![p] = [me EXCEPT !.pc = "done", !.result = "true",
                                                    !.stored = store = "ok"]]
  /\ last' = NoCall
  /\ UNCHANGED <<events, now>>
  /\ job' = NoJob
  /\ UNCHANGED nonCalendarVars

NextRace ==
  \/ \E u \in UserIds, pr \in Protocols, db \in DbOutcomes, env \in Envs :
       AddPosition(MaxPositions, u, pr, db, env)
  \/ \E p \in 1..NumProcs, u \in UserIds, pid \in 1..MaxPositions, db \in DbOutcomes :
       SelectRow(p, u, pid, db)
  \/ \E p \in 1..NumProcs, env \in Envs : ProviderRequest(p, env)
  \/ \E p \in 1..NumProcs, store \in DbOutcomes : StoreReference(p, store)

SpecRace == Init /\ [][NextRace]_vars

\* ------------------------------------------------- the gas-threshold job
\* bot.start: INSERT OR IGNORE INTO users (telegram_id, ...)
Start(tg) ==
  /\ users' = IF \E i \in 1..Len(users) : users[i] = tg THEN users
              ELSE Append(users, tg)
  /\ job' = NoJob
  /\ UNCHANGED alerts
  /\ UNCHANGED nonSchedulerVars

\* A row of the alerts table is written by the user's configuration.
InsertAlert(u, type, active) ==
  /\ Len(alerts) < MaxAlerts
  /\ u \in 1..Len(users)
  /\ alerts' = Append(alerts, [user_id |-> u, alert_type |-> type, is_active |-> active])
  /\ job' = NoJob
  /\ UNCHANGED users
  /\ UNCHANGED nonSchedulerVars

\* An alert is deactivated, not deleted.
DeactivateAlert(i) ==
  /\ i \in 1..Len(alerts)
  /\ alerts[i].is_active = 1
  /\ alerts' = [alerts EXCEPT ![i].is_active = 0]
  /\ job' = NoJob
  /\ UNCHANGED users
  /\ UNCHANGED nonSchedulerVars

\* scheduler.add_job(check_gas_prices_and_notify, 'interval', hours=1)
GasJob(resp, db) ==
  /\ sched.gas = "idle"
  /\ job' = Recorded(check_gas_prices_and_notify(users, alerts, resp, db), <<resp, db>>)
  /\ UNCHANGED <<users, alerts>>
  /\ UNCHANGED nonSchedulerVars

NextGas ==
  \/ \E tg \in TelegramIds : Start(tg)
  \/ \E u \in 1..Cardinality(TelegramIds), type \in {"gas", "price"}, active \in {0, 1} :
       InsertAlert(u, type, active)
  \/ \E i \in 1..MaxAlerts : DeactivateAlert(i)
  \/ \E resp \in GasResponses, db \in DbOutcomes : GasJob(resp, db)
  \/ GasRequestHangs

SpecGas == Init /\ [][NextGas]_vars

\* The upcoming-claims job, the portfolio and sync-all runs over the
\* positions of registered users, some closed, some without an event, as
\* the days pass.  The chats register in the order of their ids; within one
\* run of the job the store and the provider answer every call alike.
ReachableProvider == {e \in Envs : e.db = "ok" /\ e.svc = "ok" /\ e.store = "ok"}

NextClaims ==
  \/ \E tg \in TelegramIds : (\A other \in TelegramIds : other < tg => UserRowOf(users, other) # NULL)
                              /\ Start(tg)
  \/ \E u \in 1..Len(users), env \in ReachableProvider :
       AddPosition(MaxPositions, u, "Compound", "ok", env)
  \/ \E pid \in 1..MaxPositions : ExternalClose(pid)
  \/ DayPasses
  \/ \E d \in DbOutcomes, e \in ClaimEnvs :
       ClaimsJob("ok", [i \in 1..Len(users) |-> d],
                 [pid \in 1..Len(positions) |-> e])
  \/ \E db \in DbOutcomes \ {"ok"} : ClaimsJob(db, <<>>, <<>>)
  \/ \E u \in 1..Len(users) :
       SyncAll(u, "ok", [i \in 1..Len(ActivePositionIds(positions, u)) |-> OkEnv])
  \/ \E tg \in TelegramIds, db \in DbOutcomes :
       ViewPortfolio(tg, db, [pid \in 1..Len(positions) |-> [svc |-> "ok", api |-> "ok", tz |-> "naive"]])

SpecClaims == Init /\ [][NextClaims]_vars

\* ------------------------------------------- the position-entry conversation
\* The words of the messages a chat sends while it enters a position.
AmountWords == {"100", "-5", "abc"}
AssetWords == {"USDC"}
AmountMessages ==
  {<<w>> : w \in AmountWords} \cup {<<w, a>> : w \in AmountWords, a \in AssetWords}
ConfirmationMessages == {"Yes", "y", "no"}

\* float(parts[0]): the number a word denotes; a word that denotes none
\* raises ValueError.  A leading minus sign is accepted.
float(word) ==
  CASE word = "100" -> [ok |-> TRUE, value |-> 100]
    [] word = "-5" -> [ok |-> TRUE, value |-> -5]
    [] OTHER -> [ok |-> FALSE, value |-> 0]

\* update.message.text.lower()
lower(text) ==
  CASE text = "Yes" -> "yes"
    [] OTHER -> text

\* /add_position: the entry point of the conversation; user_data keeps what
\* an earlier conversation of the chat left in it.
add_position_start(telegram_id) ==
  /\ conv.state = "END"
  /\ conv' = [conv EXCEPT !.state = "PROTOCOL_SELECTION", !.chat = telegram_id,
                           !.handler = "add_position_start", !.text = <<>>,
                           !.trail = <<"PROTOCOL_SELECTION">>]
  /\ UNCHANGED <<positions, events, now, last, procs, users, alerts, job, est, sched, wallets, wconv, gas>>

\* A button of the protocol keyboard is pressed: callback data
\* 'protocol_<name>', the name taken by split('_')[1].
protocol_selected(protocol) ==
  /\ conv.state = "PROTOCOL_SELECTION"
  /\ conv' = [conv EXCEPT !.state = "AMOUNT_INPUT", !.protocol = protocol,
                           !.handler = "protocol_selected", !.text = <<>>,
                           !.trail = Append(conv.trail, "AMOUNT_INPUT")]
  /\ UNCHANGED <<positions, events, now, last, procs, users, alerts, job, est, sched, wallets, wconv, gas>>

\* A text message in state AMOUNT_INPUT: fewer than two words, or a first
\* word float() rejects, asks again; no sign check is made.  The messages
\* modelled have at most two words, so the asset is the second word.
amount_received(parts) ==
  /\ conv.state = "AMOUNT_INPUT"
  /\ wconv.state = "END"
  /\ LET heard == [conv EXCEPT !.handler = "amount_received", !.text = parts]
     IN conv' = IF Len(parts) < 2 THEN heard
                ELSE IF ~float(parts[1]).ok THEN heard
                ELSE [heard EXCEPT !.state = "CONFIRMATION",
                                   !.amount = float(parts[1]).value,
                                   !.asset = parts[2],
                                   !.trail = Append(conv.trail, "CONFIRMATION")]
  /\ UNCHANGED <<positions, events, now, last, procs, users, alerts, job, est, sched, wallets, wconv, gas>>

\* A text message in state CONFIRMATION.  dbc is the handler's own
\* connection and its SELECT of the user row; every exception of the body is
\* caught and answered with an error message.
confirmation(text, dbc, db, env) ==
  /\ conv.state = "CONFIRMATION"
  /\ wconv.state = "END"
  /\ conv' = [conv EXCEPT !.state = "END", !.handler = "confirmation",
                           !.text = <<text>>, !.trail = Append(conv.trail, "END")]
  /\ LET db_user_id == UserRowOf(users, conv.chat)
         stored == lower(text) \in {"yes", "y"} /\ dbc = "ok" /\ db_user_id # NULL
         r == IF stored
              THEN setup_calendar_sync_for_new_position(
                     positions, events, now, db_user_id, conv.protocol, conv.asset,
                     conv.amount, db, env)
              ELSE Ret(positions, events, "none", "none", NULL, 0, NULL)
     IN /\ Len(r.positions) <= MaxPositions
        /\ Len(r.events) <= MaxEvents
        /\ positions' = r.positions
        /\ events' = r.events
        /\ last' = IF stored
                   THEN [NoCall EXCEPT !.op = "add", !.user = db_user_id,
                                       !.pid = IF db = "ok" THEN Len(positions) + 1 ELSE NULL,
                                       !.result = r.result, !.path = r.path,
                                       !.event = r.event, !.created = r.created,
                                       !.target = r.target, !.env = env,
                                       !.dbOk = db = "ok" /\ env.db = "ok",
                                       !.provOk = db = "ok" /\ ProviderSucceeds(env)]
                   ELSE NoCall
  /\ job' = NoJob
  /\ UNCHANGED <<now, procs, users, alerts, est, sched, wallets, wconv, gas>>

\* /cancel, the fallback of both conversations.  The handlers share one
\* dispatcher group, in which the first handler that accepts an update gets
\* it: the wallet conversation, added first, takes the command and the text
\* messages while it is in WALLET_ADDRESS.
cancel ==
  /\ conv.state # "END" \/ wconv.state # "END"
  /\ IF wconv.state # "END"
     THEN /\ wconv' = [wconv EXCEPT !.state = "END", !.handler = "cancel",
                                     !.address = <<>>, !.db = "none", !.user = NULL,
                                     !.reply = "cancelled"]
          /\ conv' = conv
     ELSE /\ conv' = [conv EXCEPT !.state = "END", !.handler = "cancel", !.text = <<>>,
                                   !.trail = Append(conv.trail, "END")]
          /\ wconv' = wconv
  /\ UNCHANGED <<positions, events, now, last, procs, users, alerts, job, est, sched,
                 wallets, gas>>

\* The buttons of the keyboard carry the protocols of get_defi_yields().
NextEntry ==
  \/ \E tg \in TelegramIds : Start(tg)
  \/ \E tg \in TelegramIds : add_position_start(tg)
  \/ \E protocol \in {"Aave", "Compound"} : protocol_selected(protocol)
  \/ \E parts \in AmountMessages : amount_received(parts)
  \/ \E text \in ConfirmationMessages, dbc \in DbOutcomes, db \in DbOutcomes,
        env \in ReachableProvider : confirmation(text, dbc, db, env)
  \/ cancel

SpecEntry == Init /\ [][NextEntry]_vars

\* ------------------------------------------- the wallet-addition conversation
\* The names bound in bot.py when a handler runs: its imports (lines 1-16).
bot_globals ==
  {"os", "logging", "Update", "InlineKeyboardButton", "InlineKeyboardMarkup",
   "Updater", "CommandHandler", "MessageHandler", "Filters", "CallbackContext",
   "ConversationHandler", "CallbackQueryHandler", "load_dotenv", "database",
   "blockchain_utils", "calendar_integration", "logger"}

\* The texts a chat sends as its address: how the text starts, how many
\* characters it has, and the rest of it.
AddressLength == 42
WalletTexts == [head : {"0x", "zz"}, len : {AddressLength - 1, AddressLength}, rest : {"a", "b"}]

\* wallet_address.startswith('0x') and len(wallet_address) == 42
WellFormed(text) == text.head = "0x" /\ text.len = AddressLength

\* INSERT INTO wallets (user_id, address, label) on a table without its
\* UNIQUE constraint.
InsertWallet_NoUnique(wal, user_id, address) ==
  [wallets |-> Append(wal, [user_id |-> user_id, address |-> address]), ok |-> TRUE]

\* INSERT INTO wallets (user_id, address, label): UNIQUE(user_id, address)
\* makes SQLite refuse a second row of the pair (IntegrityError).
InsertWallet(wal, user_id, address) ==
  IF \E i \in 1..Len(wal) : wal[i].user_id = user_id /\ wal[i].address = address
  THEN [wallets |-> wal, ok |-> FALSE]
  ELSE [wallets |-> Append(wal, [user_id |-> user_id, address |-> address]), ok |-> TRUE]

\* /add_wallet: the entry point of the conversation
add_wallet_start(telegram_id) ==
  /\ wconv.state = "END"
  /\ wconv' = [NoWalletConversation EXCEPT !.state = "WALLET_ADDRESS",
                                           !.chat = telegram_id,
                                           !.handler = "add_wallet_start",
                                           !.reply = "send address"]
  /\ UNCHANGED <<positions, events, now, last, procs, users, alerts, job, est, sched,
                 conv, wallets, gas>>

\* What wallet_address_received does with a well-formed address once it
\* holds a connection: the SELECT of the user row, then the parameters of
\* the INSERT, whose label reads the name datetime.  A name that is not
\* bound raises NameError before the INSERT is executed; every exception is
\* caught and answered.
StoreWallet(wal, usr, telegram_id, address, db) ==
  LET db_user_id == UserRowOf(usr, telegram_id)
  IN IF db = "error" THEN [wallets |-> wal, user |-> NULL, reply |-> "error adding"]
     ELSE IF db_user_id = NULL THEN [wallets |-> wal, user |-> NULL, reply |-> "user not found"]
     ELSE IF "datetime" \notin bot_globals
       THEN [wallets |-> wal, user |-> db_user_id, reply |-> "error adding"]
     ELSE LET r == InsertWallet(wal, db_user_id, address)
          IN [wallets |-> r.wallets, user |-> db_user_id,
              reply |-> IF r.ok THEN "added" ELSE "error adding"]

\* A text message in state WALLET_ADDRESS
wallet_address_received(text, db) ==
  /\ wconv.state = "WALLET_ADDRESS"
  /\ LET heard == [wconv EXCEPT !.handler = "wallet_address_received", !.address = text,
                                 !.db = "none", !.user = NULL]
         r == StoreWallet(wallets, users, wconv.chat, text, db)
     IN IF ~WellFormed(text)
        THEN /\ wconv' = [heard EXCEPT !.reply = "invalid address"]
             /\ wallets' = wallets
        ELSE IF db = "noconn"
        THEN /\ wconv' = [heard EXCEPT !.state = "END", !.db = db, !.reply = "no connection"]
             /\ wallets' = wallets
        ELSE /\ wconv' = [heard EXCEPT !.state = "END", !.db = db, !.user = r.user,
                                        !.reply = r.reply]
             /\ wallets' = r.wallets
  /\ UNCHANGED <<positions, events, now, last, procs, users, alerts, job, est, sched,
                 conv, gas>>

\* A wallet row written by another client of the store, the handler of the
\* bot never reaching its INSERT; the table's constraint holds for every
\* writer.
StoreInsertWallet(user_id, address) ==
  /\ Len(wallets) < MaxWallets
  /\ user_id \in 1..Len(users)
  /\ InsertWallet(wallets, user_id, address).ok
  /\ wallets' = InsertWallet(wallets, user_id, address).wallets
  /\ UNCHANGED <<positions, events, now, last, procs, users, alerts, job, est, sched,
                 conv, wconv, gas>>

NextWallet ==
  \/ \E tg \in TelegramIds : Start(tg)
  \/ \E tg \in TelegramIds : add_wallet_start(tg)
  \/ \E text \in WalletTexts, db \in DbOutcomes : wallet_address_received(text, db)
  \/ cancel
  \/ \E u \in UserIds, text \in {t \in WalletTexts : WellFormed(t)} : StoreInsertWallet(u, text)

SpecWallet == Init /\ [][NextWallet]_vars

\* ---------------------------------------------------------------- GasWizard
HistoryHours == 24
MediumConfidenceAbove == 12
DefaultGas == 21000
BatchCallGas == 2000

\* GasWizard.get_current_gas_prices: get_gas_prices, and on a success body
\* the prices appended to the history with the time of the call, the
\* history then cut to the entries younger than 24 hours.  int() raises, on
\* a decimal price string, before the append.
GasWizard_get_current_gas_prices(history, resp, t) ==
  IF resp.kind = "ok"
  THEN LET gas_prices == [slow |-> resp.SafeGasPrice, average |-> resp.ProposeGasPrice,
                          fast |-> resp.FastGasPrice]
           appended == Append(history, [timestamp |-> t, prices |-> gas_prices])
       IN [prices |-> gas_prices,
           history |-> SelectSeq(appended, LAMBDA entry : entry.timestamp > t - HistoryHours)]
  ELSE [prices |-> [slow |-> FallbackSlow, average |-> FallbackAverage, fast |-> FallbackFast],
        history |-> history]

\* entry['timestamp'].hour
HourOf(entry) == entry.timestamp % HoursPerDay

\* The keys of the dict hours, in the order they were inserted: the hour of
\* each entry that no earlier entry has.
HourKeys(history) ==
  LET firsts == SelectSeq([i \in 1..Len(history) |-> i],
                          LAMBDA i : \A j \in 1..(i - 1) : HourOf(history[j]) # HourOf(history[i]))
  IN [k \in 1..Len(firsts) |-> HourOf(history[firsts[k]])]

\* sum(x[1]) and len(x[1]) of the averages filed under an hour
RECURSIVE HourSum(_, _, _)
HourSum(history, hour, i) ==
  IF i > Len(history) THEN 0
  ELSE (IF HourOf(history[i]) = hour THEN history[i].prices.average ELSE 0)
       + HourSum(history, hour, i + 1)

HourCount(history, hour) ==
  Cardinality({i \in 1..Len(history) : HourOf(history[i]) = hour})

\* min(hours.items(), key=mean): the first key, in insertion order, whose
\* mean no other key's mean is below.  Means are compared as fractions.
BestHour(history) ==
  LET keys == HourKeys(history)
      Below(a, b) == HourSum(history, a, 1) * HourCount(history, b)
                       < HourSum(history, b, 1) * HourCount(history, a)
      k == CHOOSE k \in 1..Len(keys) :
             /\ \A m \in 1..Len(keys) : ~Below(keys[m], keys[k])
             /\ \A m \in 1..(k - 1) : Below(keys[k], keys[m])
  IN keys[k]

\* '12 AM', f'{h} AM', '12 PM', f'{h - 12} PM'
FormatHour(hour) ==
  IF hour = 0 THEN <<12, "AM">>
  ELSE IF hour < 12 THEN <<hour, "AM">>
  ELSE IF hour = 12 THEN <<12, "PM">>
  ELSE <<hour - 12, "PM">>

\* GasWizard.predict_optimal_gas_time: best_time is split into its number
\* and its half of the day; 'Unknown' comes with the recommendation 'Not
\* enough data to make a prediction'.
predict_optimal_gas_time(history) ==
  IF history = <<>>
  THEN [best_time |-> "Unknown", best_hour |-> 0, confidence |-> "low"]
  ELSE [best_time |-> FormatHour(BestHour(history))[2],
        best_hour |-> FormatHour(BestHour(history))[1],
        confidence |-> IF Len(history) > MediumConfidenceAbove THEN "medium" ELSE "low"]

\* tx.get('gas', 21000): a transaction without the key is written gas = NULL
GasOf(tx) == IF tx.gas = NULL THEN DefaultGas ELSE tx.gas

RECURSIVE TotalGas(_, _)
TotalGas(transactions, i) ==
  IF i > Len(transactions) THEN 0
  ELSE GasOf(transactions[i]) + TotalGas(transactions, i + 1)

\* len(recipients[addr])
TxsTo(transactions, addr) ==
  Cardinality({i \in 1..Len(transactions) : transactions[i].to = addr})

RECURSIVE BatchedGas(_, _)
BatchedGas(transactions, addrs) ==
  IF addrs = {} THEN 0
  ELSE LET addr == CHOOSE a \in addrs : TRUE
       IN DefaultGas + BatchCallGas * TxsTo(transactions, addr)
          + BatchedGas(transactions, addrs \ {addr})

NoBatch ==
  [can_batch |-> FALSE, batchable_groups |-> 0, total_transactions |-> 0,
   batchable_transactions |-> 0, estimated_gas_savings |-> 0,
   savings_percentage |-> [num |-> 0, den |-> 1]]

\* A recipient counted as batchable only from three transactions on.
suggest_batch_transactions_FromThree(transactions) ==
  IF Len(transactions) < 2 THEN NoBatch
  ELSE
    LET recipients == {transactions[i].to : i \in 1..Len(transactions)}
        batchable == {addr \in recipients : TxsTo(transactions, addr) > 2}
    IN IF batchable = {} THEN NoBatch
       ELSE [NoBatch EXCEPT !.can_batch = TRUE]

\* GasWizard.suggest_batch_transactions.  The percentage
\* (savings / total_gas) * 100 is kept as the fraction num / den.
suggest_batch_transactions(transactions) ==
  IF Len(transactions) < 2 THEN NoBatch
  ELSE
    LET recipients == {transactions[i].to : i \in 1..Len(transactions)}
        batchable == {addr \in recipients : TxsTo(transactions, addr) > 1}
        total_gas == TotalGas(transactions, 1)
        non_batchable_count ==
          Cardinality({addr \in recipients : TxsTo(transactions, addr) = 1})
        batched_gas == BatchedGas(transactions, batchable)
                         + non_batchable_count * DefaultGas
        savings == total_gas - batched_gas
    IN IF batchable = {} THEN NoBatch
       ELSE [can_batch |-> TRUE,
             batchable_groups |-> Cardinality(batchable),
             total_transactions |-> Len(transactions),
             batchable_transactions |->
               Cardinality({i \in 1..Len(transactions) : transactions[i].to \in batchable}),
             estimated_gas_savings |-> savings,
             savings_percentage |-> IF total_gas > 0
                                    THEN [num |-> savings * 100, den |-> total_gas]
                                    ELSE [num |-> 0, den |-> 1]]

\* blockchain_utils.get_gas_prices(), as bot.check_gas and the job call it
GetGasPrices(resp) ==
  /\ gas' = [gas EXCEPT !.call = [NoGasCall EXCEPT !.op = "get_gas_prices",
                                                   !.provider = resp.kind,
                                                   !.prices = get_gas_prices(resp)]]
  /\ UNCHANGED <<positions, events, now, last, procs, users, alerts, job, est, sched,
                 conv, wallets, wconv>>

GetCurrentGasPrices(resp) ==
  /\ LET r == GasWizard_get_current_gas_prices(gas.history, resp, now)
     IN /\ Len(r.history) <= MaxHistory
        /\ gas' = [history |-> r.history,
                   call |-> [NoGasCall EXCEPT !.op = "get_current_gas_prices",
                                              !.provider = resp.kind,
                                              !.prices = r.prices]]
  /\ UNCHANGED <<positions, events, now, last, procs, users, alerts, job, est, sched,
                 conv, wallets, wconv>>

PredictOptimalGasTime ==
  /\ gas' = [gas EXCEPT !.call = [NoGasCall EXCEPT
                                    !.op = "predict_optimal_gas_time",
                                    !.samples = Len(gas.history),
                                    !.prediction = predict_optimal_gas_time(gas.history)]]
  /\ UNCHANGED <<positions, events, now, last, procs, users, alerts, job, est, sched,
                 conv, wallets, wconv>>

SuggestBatchTransactions(transactions) ==
  /\ gas' = [gas EXCEPT !.call = [NoGasCall EXCEPT
                                    !.op = "suggest_batch_transactions",
                                    !.transactions = transactions,
                                    !.batch = suggest_batch_transactions(transactions)]]
  /\ UNCHANGED <<positions, events, now, last, procs, users, alerts, job, est, sched,
                 conv, wallets, wconv>>

\* The gas API's answers to a wizard whose history holds n samples: the
\* average price varies over the first MaxVaried samples of a history.
WizardResponses(n) ==
  {resp \in GasResponses :
     resp.kind = "ok" => (resp.ProposeGasPrice # 30
                          /\ (n >= MaxVaried => resp.ProposeGasPrice = 25))}

NextWizard ==
  \/ \E resp \in WizardResponses(0) : GetGasPrices(resp)
  \/ \E resp \in WizardResponses(Len(gas.history)) : GetCurrentGasPrices(resp)
  \/ PredictOptimalGasTime
  \/ Tick
  \/ DayPasses

SpecWizard == Init /\ [][NextWizard]_vars

\* Lists of up to MaxTxs transactions to three recipients, with and without
\* a gas value of their own.
Recipients == {"0xA", "0xB", "0xC"}
Transactions ==
  UNION {[1..n -> [to : Recipients, gas : {NULL, 100000}]] : n \in 0..MaxTxs}

\* main(): gas_wizard = GasWizard(), once per start of the process
NewWizard ==
  /\ gas # NewGasWizard
  /\ gas' = NewGasWizard
  /\ UNCHANGED <<positions, events, now, last, procs, users, alerts, job, est, sched,
                 conv, wallets, wconv>>

\* One call of a new wizard, then the process is started again.
NextBatch ==
  \/ \E transactions \in Transactions :
       gas.call.op = "none" /\ SuggestBatchTransactions(transactions)
  \/ NewWizard

SpecBatch == Init /\ [][NextBatch]_vars

\* ------------------------------------------------ every operation together
\* Registration, wallet addition, the portfolio and upcoming-claims queries
\* and the three scheduler jobs, among additions and reconciliations of the
\* positions of the first user, by their owner and by a second user.  The
\* provider answers the queries and the jobs without an offset, so that
\* they find the claims there are.
NaiveEnvs == [pid \in 1..Len(positions) |-> [svc |-> "ok", api |-> "ok", tz |-> "naive"]]

NextFrame ==
  \/ \E tg \in TelegramIds : (\A other \in TelegramIds : other < tg => UserRowOf(users, other) # NULL)
                              /\ Start(tg)
  \/ \E env \in ReachableProvider :
       Len(users) >= 1 /\ AddPosition(MaxFanOut, 1, "Compound", "ok", env)
  \/ \E u \in UserIds, pid \in 1..MaxFanOut, env \in ReachableProvider :
       SyncPosition(u, pid, env)
  \/ \E u \in UserIds :
       SyncAll(u, "ok", [i \in 1..Len(ActivePositionIds(positions, u)) |-> OkEnv])
  \/ \E tg \in TelegramIds : UserRowOf(users, tg) = 1 /\ add_wallet_start(tg)
  \/ \E text \in {t \in WalletTexts : WellFormed(t) /\ t.rest = "a"} :
       wallet_address_received(text, "ok")
  \/ \E tg \in TelegramIds : ViewPortfolio(tg, "ok", NaiveEnvs)
  \/ \E tg \in TelegramIds : ViewUpcomingClaims(tg, "ok", NaiveEnvs)
  \/ \E resp \in {r \in GasResponses : r.kind = "ok" /\ r.ProposeGasPrice = 25} :
       GasJob(resp, "ok")
  \/ ClaimsJob("ok", [u \in 1..Len(users) |-> "ok"], NaiveEnvs)
  \/ SecurityJob

SpecFrame == Init /\ [][NextFrame]_vars

\* ------------------------------------------------- the estimator by itself
\* The protocols and assets the estimator is called with: every protocol of
\* the frequency table, one that is not listed, and the empty string.
EstimatorProtocols == DOMAIN claim_frequencies \cup {"Euler", ""}
EstimatorAssets == {"USDC", "CRV", ""}

\* blockchain_utils.estimate_next_claim_date(protocol, asset)
Estimate(protocol, asset) ==
  /\ est' = [op |-> "blockchain_utils", protocol |-> protocol, asset |-> asset,
             t |-> now, result |-> "date",
             date |-> estimate_next_claim_date(protocol, asset, now)]
  /\ UNCHANGED <<positions, events, now, last, procs, users, alerts, job, sched, conv, wallets, wconv, gas>>

\* YieldSense().estimate_next_claim_date(protocol, asset)
EstimateYieldSense(protocol, asset) ==
  /\ est' = [op |-> "YieldSense", protocol |-> protocol, asset |-> asset,
             t |-> now, result |-> "date",
             date |-> YieldSense_estimate_next_claim_date(protocol, asset, now)]
  /\ UNCHANGED <<positions, events, now, last, procs, users, alerts, job, sched, conv, wallets, wconv, gas>>

NextEst ==
  \/ \E protocol \in EstimatorProtocols, asset \in EstimatorAssets : Estimate(protocol, asset)
  \/ \E protocol \in EstimatorProtocols, asset \in EstimatorAssets :
       EstimateYieldSense(protocol, asset)
  \/ Tick
  \/ DayPasses

SpecEst == Init /\ [][NextEst]_vars

\* Both jobs, run after run, over registered users, the gas alerts and the
\* positions the first user entered on the first day, as the days pass and
\* the process is restarted.  The gas API answers below, at and above the threshold or
\* not at all; within one run of the upcoming-claims job the store and the
\* provider answer every call alike.
NextJobs ==
  \/ \E tg \in TelegramIds : (\A other \in TelegramIds : other < tg => UserRowOf(users, other) # NULL)
                              /\ Start(tg)
  \/ Len(users) >= 1 /\ InsertAlert(1, "gas", 1)
  \/ Len(users) >= 1 /\ now < HoursPerDay /\ AddPosition(MaxPositions, 1, "Compound", "ok", OkEnv)
  \/ DayPasses
  \/ \E resp \in GasResponses : resp.kind \in {"ok", "exception"} /\ GasJob(resp, "ok")
  \/ \E resp \in GasResponses, db \in DbOutcomes \ {"ok"} :
       resp.ProposeGasPrice = 25 /\ GasJob(resp, db)
  \/ \E d \in {"ok", "error"}, e \in ClaimEnvs :
       ClaimsJob("ok", [i \in 1..Len(users) |-> d], [pid \in 1..Len(positions) |-> e])
  \/ \E db \in DbOutcomes \ {"ok"} : ClaimsJob(db, <<>>, <<>>)
  \/ RestartScheduler

SpecJobs == Init /\ [][NextJobs]_vars

\* ------------------------------------------------------------- properties
\* The live provider events that were created for a position.
LiveEventsOf(pid) ==
  {e \in 1..Len(events) : events[e].live /\ events[e].pos = pid}

\* A Python bool read as the int it is (True == 1, False == 0).
BoolInt(b) == IF b THEN 1 ELSE 0

\* C1: in every state reached by additions, single syncs and sync-all runs,
\* with provider and store calls free to fail, every active position has at
\* most one live calendar event created for it.
C1_AtMostOneLiveEvent ==
  \A pid \in 1..Len(positions) :
    positions[pid].status = "active" => Cardinality(LiveEventsOf(pid)) <= 1

\* C2: reconcile is idempotent: of two successive syncs of one position, the
\* provider answering both and no time passing between them, the second
\* creates no event and leaves the stored reference as the first left it.
C2_ReconcileIdempotent ==
  [][(/\ last.op = "sync" /\ last.provOk /\ last.path \in {"create", "update"}
      /\ last'.op = "sync" /\ last'.provOk
      /\ last'.user = last.user /\ last'.pid = last.pid
      /\ now' = now)
     => (/\ last'.created = 0
         /\ Len(events') = Len(events)
         /\ RefOf(positions', last.pid) = RefOf(positions, last.pid))]_vars

\* C3: writes to one position's reference are serialized: when two
\* reconciliations of the same position that both read a null reference have
\* both returned, every store write of theirs executed, at most one of them
\* created an event and the stored reference names the event created.
C3_SerializedPerPosition ==
  \A p, q \in 1..NumProcs :
    (/\ p # q
     /\ procs[p].pc = "done" /\ procs[q].pc = "done"
     /\ procs[p].pid = procs[q].pid /\ procs[p].user = procs[q].user
     /\ procs[p].read /\ procs[q].read
     /\ procs[p].ref = NULL /\ procs[q].ref = NULL
     /\ (procs[p].event_id # NULL => procs[p].stored)
     /\ (procs[q].event_id # NULL => procs[q].stored))
    => (/\ ~(procs[p].event_id # NULL /\ procs[q].event_id # NULL)
        /\ (procs[p].event_id # NULL =>
              positions[procs[p].pid].calendar_event_id = procs[p].event_id))

\* C4: self-healing: a sync that finds the stored reference naming an event
\* that no longer exists at the provider (the provider answering) creates
\* exactly one replacement, and the position then references a live event.
C4_SelfHealing ==
  (/\ last.op = "sync" /\ last.path = "update" /\ last.provOk
   /\ ~events[last.refBefore].live)
  => (/\ last.created = 1
      /\ RefOf(positions, last.pid) \in 1..Len(events)
      /\ events[RefOf(positions, last.pid)].live)

\* C5: when a sync finds a null reference and the provider fails to create
\* the event, the call reports failure (it returns False, or the exception
\* of get_calendar_service leaves it) and the reference stays null; and a
\* sync of a position with a null reference that the provider answers takes
\* the create path again and creates the event.
C5_FailedCreateInv ==
  (last.op = "sync" /\ last.path = "create" /\ ~last.provOk)
  => (/\ last.result = (IF last.env.svc = "raise" THEN "raised" ELSE "false")
      /\ last.created = 0
      /\ last.event = NULL
      /\ RefOf(positions, last.pid) = NULL)

C5_RetryStep ==
  (/\ last'.op = "sync" /\ last'.provOk
   /\ last'.pid \in 1..Len(positions)
   /\ positions[last'.pid].user_id = last'.user
   /\ positions[last'.pid].calendar_event_id = NULL)
  => (/\ last'.path = "create"
      /\ last'.created = 1
      /\ last'.result = "true"
      /\ Len(events') = Len(events) + 1
      /\ events'[Len(events')].live)

C5_FailedCreate == [](C5_FailedCreateInv) /\ [][C5_RetryStep]_vars

\* A sync found a null reference, the provider failed and the call returned
\* False.
C5_Witness ==
  /\ last.op = "sync" /\ last.path = "create" /\ last.result = "false"
  /\ last.env.api = "raise"
  /\ RefOf(positions, last.pid) = NULL

\* C6: after every successful reconciliation, on the create path and on the
\* update path, the date of the event of the position is the claim date of
\* its protocol as of the time of the call: the day of the call plus the
\* protocol's claim frequency.
C6_EventDateIsEstimate ==
  (last.op \in {"sync", "add"} /\ last.result = "true")
  => (/\ last.event \in 1..Len(events)
      /\ last.pid \in 1..Len(positions)
      /\ last.target = (now \div HoursPerDay)
                         + (IF positions[last.pid].protocol = "Compound" THEN 3 ELSE 7)
      /\ EventDate(events[last.event]) = last.target
      /\ (RefOf(positions, last.pid) # NULL => RefOf(positions, last.pid) = last.event))

\* A successful sync took the update path after the day changed.
C6_Witness ==
  /\ last.op = "sync" /\ last.path = "update" /\ last.result = "true"
  /\ now \div HoursPerDay > 0
  /\ EventDate(events[last.event]) = last.target

\* C7: in a sync-all run that could read the store, every active position
\* of the user is reconciled, whatever failed while reconciling another.
C7_FanOutNotAborted ==
  (last.op = "syncall" /\ last.dbOk) => Len(last.results) = Len(last.ids)

\* C8: the result of a sync-all run that could read the store is the count
\* of the positions whose reconciliation succeeded; in particular a run over
\* zero active positions is not reported the way a failure is (False).
C8_ResultIsCount ==
  (last.op = "syncall" /\ last.dbOk /\ last.result # "raised")
  => (/\ BoolInt(last.result = "true") = last.count
      /\ (last.ids = <<>> => last.result # "false"))

\* The number of notification candidates a run emitted for a telegram id.
CandidatesFor(tg) ==
  Cardinality({i \in 1..Len(job.candidates) : job.candidates[i] = tg})

\* The alert rows of the user with a telegram id that are active gas alerts.
ActiveGasAlertsOf(tg) ==
  {i \in 1..Len(alerts) :
     /\ alerts[i].alert_type = "gas" /\ alerts[i].is_active = 1
     /\ alerts[i].user_id \in 1..Len(users) /\ users[alerts[i].user_id] = tg}

\* C9: in a run of the gas-threshold job with the average at or below the
\* threshold and the store read, each user with at least one active gas
\* alert gets exactly one notification candidate and every other user none.
C9_OneCandidatePerUser ==
  (job.name = "gas" /\ job.average <= 30 /\ job.storeRead)
  => \A tg \in TelegramIds :
       CandidatesFor(tg) = (IF ActiveGasAlertsOf(tg) # {} THEN 1 ELSE 0)

\* C10: a run of the gas-threshold job emits candidates only when the
\* average price is at or below 30; above 30 it emits none and does not
\* read the store; at or below 30 (30 included) it reads the store, when
\* the store can be read, and emits a candidate for every active gas alert
\* row of a registered user.
C10_ThresholdGate ==
  job.name = "gas"
  => (/\ (job.candidates # <<>> => job.average <= 30)
      /\ (job.average > 30 => job.candidates = <<>> /\ ~job.storeRead)
      /\ (job.average <= 30 /\ job.db = "ok" => job.storeRead)
      /\ (job.average <= 30 /\ job.storeRead =>
            /\ Len(job.candidates)
                 = Cardinality(UNION {ActiveGasAlertsOf(tg) : tg \in TelegramIds})
            /\ \A tg \in TelegramIds :
                 CandidatesFor(tg) = Cardinality(ActiveGasAlertsOf(tg))))

\* A run at exactly the threshold emitted a candidate.
C10_Witness ==
  /\ job.name = "gas" /\ job.average = 30 /\ job.storeRead
  /\ job.candidates # <<>>

\* The number of times a run of the upcoming-claims job emitted the candidate
\* <<telegram id, position id>>.
ClaimCandidates(tg, pid) ==
  Cardinality({k \in 1..Len(job.candidates) : job.candidates[k] = <<tg, pid>>})

\* The active positions of the user in row u whose claim, the start of their
\* live event, is 0 or 1 whole days away.
UpcomingIdsOf(u) ==
  {pid \in 1..Len(positions) :
     /\ positions[pid].user_id = u /\ positions[pid].status = "active"
     /\ positions[pid].calendar_event_id \in 1..Len(events)
     /\ events[positions[pid].calendar_event_id].live
     /\ (events[positions[pid].calendar_event_id].start - now) \div 24 \in {0, 1}}

\* The store and the calendar provider answered every call of the run.
ClaimsRunAnswered ==
  /\ job.name = "claims" /\ job.db = "ok" /\ ~job.raised
  /\ \A i \in DOMAIN job.seen[2] : job.seen[2][i] = "ok"
  /\ \A pid \in DOMAIN job.seen[3] :
       job.seen[3][pid].svc = "ok" /\ job.seen[3][pid].api = "ok"

\* C11: a run of the upcoming-claims job that the store and the provider
\* answered emits exactly one candidate for each active position of each
\* user whose claim is 0 or 1 whole days away, and none for any other
\* position.
C11_OneCandidatePerUpcomingClaim ==
  ClaimsRunAnswered
  => /\ \A u \in 1..Len(users), pid \in 1..Len(positions) :
          ClaimCandidates(users[u], pid) = (IF pid \in UpcomingIdsOf(u) THEN 1 ELSE 0)
     /\ Len(job.candidates)
          = Cardinality(UNION {UpcomingIdsOf(u) : u \in 1..Len(users)})

\* C12: a run of the upcoming-claims job leaves every position row, its
\* calendar event reference included, and every provider event as they
\* were: none created, updated or deleted.
C12_JobNeverReconciles ==
  [][job'.name = "claims" => (positions' = positions /\ events' = events)]_vars

\* A run found an upcoming claim, a day or more after the event was made.
C12_Witness ==
  /\ job.name = "claims" /\ job.candidates # <<>>
  /\ now >= 44

\* C16: no closed position is among the positions a sync-all run selected
\* to reconcile, among the positions the portfolio lists, or among the
\* candidates of a run of the upcoming-claims job.
C16_ClosedExcluded ==
  /\ last.op \in {"syncall", "portfolio"}
       => \A i \in 1..Len(last.ids) : positions[last.ids[i]].status = "active"
  /\ job.name = "claims"
       => \A k \in 1..Len(job.candidates) :
            positions[job.candidates[k][2]].status = "active"

\* A run of the upcoming-claims job that the store and the provider
\* answered, the start time read as sent, found a closed position whose
\* event is 0 or 1 days away and emitted nothing for it.
C16_Witness ==
  /\ ClaimsRunAnswered
  /\ \A pid \in DOMAIN job.seen[3] : job.seen[3][pid].tz = "naive"
  /\ \E pid \in 1..Len(positions) :
       /\ positions[pid].status = "closed"
       /\ positions[pid].calendar_event_id # NULL
       /\ events[positions[pid].calendar_event_id].live
       /\ (events[positions[pid].calendar_event_id].start - now) \div 24 \in {0, 1}
       /\ \A tg \in TelegramIds : ClaimCandidates(tg, pid) = 0

\* C13: no provider failure escapes a scheduled job: whatever the gas API
\* or the calendar provider does during a run of the gas-threshold job or of
\* the upcoming-claims job, the job function returns normally.
C13_NoFailureEscapesJob ==
  job.name \in {"gas", "claims"} => ~job.raised

C20_ProviderCallsTimeOut ==
  sched.gas # "blocked" /\ sched.claims # "blocked"

\* C15: a calendar outage never prevents adding a position: every call of
\* setup_calendar_sync_for_new_position that reaches the store appends the
\* new row, active and owned by the caller, and leaves the other rows as
\* they were, whatever the provider then does; when no event was created
\* the row stays with a null reference; the outcomes differ only in the
\* result reported.
C15_OutageNeverPreventsAdding ==
  [][(last'.op = "add" /\ last'.pid # NULL /\ last' # last)
     => (/\ Len(positions') = Len(positions) + 1
         /\ last'.pid = Len(positions')
         /\ \A i \in 1..Len(positions) : positions'[i] = positions[i]
         /\ positions'[last'.pid].user_id = last'.user
         /\ positions'[last'.pid].status = "active"
         /\ (last'.created = 0 => positions'[last'.pid].calendar_event_id = NULL)
         /\ (~last'.provOk => last'.result \in {"false", "raised"}))]_vars

\* A position was added while the calendar client could not be built: the
\* row is stored with a null reference and the exception left the call.
C15_Witness ==
  /\ last.op = "add" /\ last.pid # NULL
  /\ last.env.svc = "raise" /\ last.result = "raised"
  /\ positions[last.pid].status = "active"
  /\ positions[last.pid].calendar_event_id = NULL

\* C17: for every protocol, asset and time of the call, the estimated next
\* claim date is the day of the call plus the frequency of the protocol in
\* days: Aave 7, Compound 3, Uniswap 14, Curve 7, Yearn 7, Convex 14,
\* Harvest 7 and 7 for every other protocol; the asset and the earlier calls
\* have no part in it.
C17_EstimateIsDayPlusFrequency ==
  (est.op # "none" /\ est.protocol # "" /\ est.asset # "")
  => /\ est.result = "date"
     /\ est.date = (est.t \div 24)
                     + (CASE est.protocol = "Compound" -> 3
                          [] est.protocol \in {"Uniswap", "Convex"} -> 14
                          [] OTHER -> 7)

\* The estimate of an unlisted protocol, asked for on a later day than the
\* call before it.
C17_Witness ==
  /\ est.op # "none" /\ est.protocol = "Euler" /\ est.asset = "CRV"
  /\ est.t >= 44 /\ est.date = (est.t \div 24) + 7

\* C18: a call of the estimator with an empty protocol or an empty asset
\* fails with a validation error and returns no date.
C18_EstimatorRejectsEmpty ==
  (est.op # "none" /\ (est.protocol = "" \/ est.asset = ""))
  => est.result = "ValidationError"

\* C19: no position is stored with a negative amount, an empty protocol or
\* an empty asset, whatever the chat sends to the position-entry
\* conversation: such a creation is refused and stores nothing.
C19_StoredPositionsAreValid ==
  \A pid \in 1..Len(positions) :
    /\ positions[pid].amount >= 0
    /\ positions[pid].protocol # ""
    /\ positions[pid].asset # ""

\* C27: whenever a sync of a position whose reference was null reports
\* success, the stored reference of that position names the event the sync
\* just created.
C27_SuccessStoresReference ==
  (/\ last.op = "sync" /\ last.result = "true"
   /\ last.path = "create" /\ last.refBefore = NULL)
  => (/\ last.event # NULL
      /\ RefOf(positions, last.pid) = last.event)

\* C28: a sync called with a position that does not exist, or that another
\* user owns, reports failure, returns before any provider request and
\* leaves every position row and every provider event as they were.
C28_ScopedToOwner ==
  [][(/\ last'.op = "sync"
      /\ ~(/\ last'.pid \in 1..Len(positions)
           /\ positions[last'.pid].user_id = last'.user))
     => (/\ last'.result = "false"
         /\ last'.path \in {"notfound", "nodb"}
         /\ last'.created = 0 /\ last'.event = NULL
         /\ events' = events
         /\ positions' = positions)]_vars

\* A user asked for the sync of a position another user owns, the store
\* answering, and was refused.
C28_Witness ==
  /\ last.op = "sync" /\ last.dbOk
  /\ last.pid \in 1..Len(positions)
  /\ positions[last.pid].user_id # last.user
  /\ last.result = "false" /\ last.path = "notfound"

\* C29: a run of the gas-threshold job during which the gas provider is
\* unavailable (the request raises, or the answer's status is not success)
\* emits no notification candidate and does not read the store.
C29_OutageNeverNotifies ==
  (job.name = "gas" /\ job.provider \in {"exception", "status0"})
  => (/\ job.candidates = <<>>
      /\ ~job.storeRead
      /\ job.average > LOW_GAS_THRESHOLD)

\* The provider was unreachable during a run while a registered user had an
\* active gas alert and the store could be read.
C29_Witness ==
  /\ job.name = "gas" /\ job.provider = "exception" /\ job.db = "ok"
  /\ \E tg \in TelegramIds : ActiveGasAlertsOf(tg) # {}
  /\ job.candidates = <<>>

\* The words of a message that name no amount of an asset: fewer than two
\* words, a first word that is no number, or a negative number.
InvalidAmount(parts) ==
  \/ Len(parts) < 2
  \/ ~float(parts[1]).ok
  \/ float(parts[1]).value < 0

\* C22: a step of the position-entry conversation stores a position only
\* when it is the confirmation handler answering yes in state CONFIRMATION,
\* reached through PROTOCOL_SELECTION and AMOUNT_INPUT in that order; an
\* invalid amount leaves the conversation in AMOUNT_INPUT; any other answer
\* and a cancel end the conversation and store nothing.
C22_StoresOnlyOnConfirm ==
  [][/\ positions' # positions
        => (/\ conv.state = "CONFIRMATION"
            /\ conv.trail = <<"PROTOCOL_SELECTION", "AMOUNT_INPUT", "CONFIRMATION">>
            /\ conv'.handler = "confirmation"
            /\ lower(conv'.text[1]) \in {"yes", "y"}
            /\ conv'.state = "END"
            /\ Len(positions') = Len(positions) + 1)
     /\ (/\ conv.state = "AMOUNT_INPUT" /\ conv'.handler = "amount_received"
         /\ InvalidAmount(conv'.text))
        => (conv'.state = "AMOUNT_INPUT" /\ positions' = positions)
     /\ (/\ conv.state = "CONFIRMATION" /\ conv'.handler = "confirmation"
         /\ conv' # conv /\ lower(conv'.text[1]) \notin {"yes", "y"})
        => (conv'.state = "END" /\ positions' = positions)
     /\ (conv.state # "END" /\ conv'.handler = "cancel" /\ conv' # conv)
        => (conv'.state = "END" /\ positions' = positions)]_vars

\* C23: the wallet rows are unique per (user, address) in every state, and
\* a step in which a chat submits an address its user already holds leaves
\* the wallet rows unchanged.
C23_UniquePerUserAddress ==
  /\ [](\A i, j \in 1..Len(wallets) :
          (wallets[i].user_id = wallets[j].user_id
           /\ wallets[i].address = wallets[j].address) => i = j)
  /\ [][(/\ wconv.state = "WALLET_ADDRESS"
         /\ wconv'.handler = "wallet_address_received"
         /\ \E i \in 1..Len(wallets) :
              /\ wallets[i].user_id = UserRowOf(users, wconv.chat)
              /\ wallets[i].address = wconv'.address)
        => wallets' = wallets]_vars

\* A registered chat submitted, the store answering, a well-formed address
\* that its user already holds.
C23_Witness ==
  /\ wconv.handler = "wallet_address_received" /\ wconv.db = "ok"
  /\ wconv.user # NULL /\ WellFormed(wconv.address)
  /\ \E i \in 1..Len(wallets) :
       wallets[i].user_id = wconv.user /\ wallets[i].address = wconv.address

\* C30: after a registered chat in WALLET_ADDRESS sent a well-formed address
\* with the store reachable, a wallet row of (user, address) exists and the
\* conversation has ended; after a malformed address the conversation is
\* still in WALLET_ADDRESS.
C30_WellFormedAddressIsStored ==
  wconv.handler = "wallet_address_received"
  => /\ (WellFormed(wconv.address) /\ wconv.db = "ok" /\ wconv.user # NULL)
        => (/\ wconv.state = "END"
            /\ \E i \in 1..Len(wallets) :
                 wallets[i].user_id = wconv.user /\ wallets[i].address = wconv.address)
     /\ ~WellFormed(wconv.address) => wconv.state = "WALLET_ADDRESS"

\* The prices get_gas_prices documents as its fallback.
FallbackPrices == [slow |-> 30, average |-> 45, fast |-> 60]

\* C24: whenever the gas API is unreachable or raises, or answers with a
\* status other than success, get_gas_prices and
\* GasWizard.get_current_gas_prices return the fallback prices 30, 45, 60.
C24_FallbackWhenUnavailable ==
  (/\ gas.call.op \in {"get_gas_prices", "get_current_gas_prices"}
   /\ gas.call.provider \in {"exception", "status0"})
  => gas.call.prices = FallbackPrices

\* get_gas_prices was called while the API could not be reached.
C24_Witness ==
  /\ gas.call.op = "get_gas_prices"
  /\ gas.call.provider = "exception"
  /\ gas.call.prices.average = 45

\* The recipients of a list of transactions, and the number each receives.
RecipientsOf(txs) == {txs[i].to : i \in 1..Len(txs)}

ReceivedBy(txs, addr) == Cardinality({i \in 1..Len(txs) : txs[i].to = addr})

\* C25: suggest_batch_transactions reports can_batch exactly when the list
\* has at least 2 transactions and some recipient receives at least 2 of
\* them; then, every transaction at the default 21000 gas, the savings are
\* 21000 per transaction less 21000 + 2000 x count for each recipient of 2
\* or more and 21000 for each recipient of one, and the savings percentage
\* is strictly between 0 and 100.
C25_BatchAdvice ==
  gas.call.op = "suggest_batch_transactions"
  => LET txs == gas.call.transactions
         groups == {a \in RecipientsOf(txs) : ReceivedBy(txs, a) >= 2}
         singles == {a \in RecipientsOf(txs) : ReceivedBy(txs, a) = 1}
         grouped == Cardinality({i \in 1..Len(txs) : txs[i].to \in groups})
         result == gas.call.batch
     IN /\ result.can_batch = (Len(txs) >= 2 /\ groups # {})
        /\ (result.can_batch /\ \A i \in 1..Len(txs) : txs[i].gas = NULL)
           => (/\ result.estimated_gas_savings
                    = 21000 * Len(txs)
                        - (21000 * Cardinality(groups) + 2000 * grouped
                           + 21000 * Cardinality(singles))
               /\ result.savings_percentage.num > 0
               /\ result.savings_percentage.num < 100 * result.savings_percentage.den)

\* The list [A, A, B], every transaction at the default gas: one group of
\* two and one single recipient.
C25_Witness ==
  /\ gas.call.op = "suggest_batch_transactions"
  /\ Len(gas.call.transactions) = 3
  /\ \A i \in 1..3 : gas.call.transactions[i].gas = NULL
  /\ gas.call.transactions[1].to = gas.call.transactions[2].to
  /\ gas.call.transactions[3].to # gas.call.transactions[1].to
  /\ gas.call.batch.can_batch
  /\ gas.call.batch.batchable_groups = 1
  /\ gas.call.batch.estimated_gas_savings = 17000

\* C26: predict_optimal_gas_time reports confidence low on a history of
\* fewer than 12 samples and medium on one of 12 or more; on an empty
\* history it returns the result that names no time.
C26_ConfidenceFromTwelve ==
  gas.call.op = "predict_optimal_gas_time"
  => /\ gas.call.prediction.confidence
          = (IF gas.call.samples < 12 THEN "low" ELSE "medium")
     /\ gas.call.samples = 0 => gas.call.prediction.best_time = "Unknown"

\* A step that is a reconciliation of the position: a sync of it, or a
\* sync-all run of the user that selects it.
ReconciliationOf(pid) ==
  \/ \E u \in UserIds, env \in Envs : SyncPosition(u, pid, env)
  \/ \E u \in UserIds :
       /\ \E i \in 1..Len(ActivePositionIds(positions, u)) :
            ActivePositionIds(positions, u)[i] = pid
       /\ \E envs \in [1..Len(ActivePositionIds(positions, u)) -> Envs] :
            SyncAll(u, "ok", envs)

\* C21: every step that changes the calendar event reference of a position
\* is a reconciliation of that position; registration, wallet addition, the
\* portfolio and upcoming-claims queries, the three scheduler jobs and the
\* reconciliation of another position leave it as it was.
C21_OnlyReconcilerWritesReference ==
  [][\A pid \in 1..Len(positions) :
       (\/ pid > Len(positions')
        \/ positions'[pid].calendar_event_id # positions[pid].calendar_event_id)
       => ReconciliationOf(pid)]_vars

\* A sync created the event of one position while another position of the
\* same user kept the reference it had.
C21_Witness ==
  /\ last.op = "sync" /\ last.created = 1 /\ last.result = "true"
  /\ \E other \in 1..Len(positions) :
       /\ other # last.pid
       /\ positions[other].user_id = last.user
       /\ positions[other].calendar_event_id # NULL
       /\ positions[other].calendar_event_id # last.event

====
